---- MODULE Spec2Model ----
(***************************************************************************)
(* Room / connection coordinator of the lobby.                             *)
(*                                                                         *)
(* GameServer (src/app/api/websocket/route.ts): rooms, rosters, host       *)
(* flags, the connection index and the messages each handler sends.        *)
(*                                                                         *)
(* Not tracked: the room's display name and lastUpdate (written, never     *)
(* read by GameServer), the value of the clock, message bodies beyond the  *)
(* set Bodies.  A handler runs to completion before the next one starts    *)
(* (single-threaded event loop); the deferred broadcast of joinRoom is its *)
(* own step.                                                               *)
(*                                                                         *)
(* HTTP room store (src/unnamed/part_001): the module-level maps rooms and *)
(* players, the clock, and the handlers GET, POST, PUT, DELETE with the    *)
(* cleanup sweep that GET and POST run first.  Not tracked: the room's     *)
(* display name, gameState, and the id and timestamp of chat entries.      *)
(* Request bodies are those that pass validateRoomData.                    *)
(***************************************************************************)
EXTENDS Integers, Sequences, FiniteSets, TLC

\* ------------------------------------------------------------------ bounds

\* Longest chat log a room may reach in the model (the code never prunes).
MaxChat == 4

\* Longest chat log a room of the HTTP store may reach in the model.
MaxLog == 6

\* How many times the clock of the HTTP store advances in the model.
MaxTicks == 2

\* ------------------------------------------------------------------ inputs

\* The values the requests of a specification are drawn from.
Lobby ==
    [rooms |-> {"R1"}, players |-> {"p1", "p2", "p3"}, hostIds |-> {"p1"},
     conns |-> {"c1", "c2"}, names |-> {"Alex"}, msgIds |-> {"m1"},
     secrets |-> {"xyz"}, maxPlayers |-> {2, 3}, minPlayers |-> {2},
     observe |-> FALSE]

\* Two members, two spellings of one display name, the wire observed.
Chat ==
    [rooms |-> {"R1"}, players |-> {"p1", "p2"}, hostIds |-> {"p1"},
     conns |-> {"c1", "c2"}, names |-> {"Alex", "alex"}, msgIds |-> {"m1"},
     secrets |-> {"xyz"}, maxPlayers |-> {2}, minPlayers |-> {2},
     observe |-> TRUE]

Conns == {"c1", "c2"}
Bodies == {"hi"}
\* `password` omitted by the caller (JavaScript undefined).
Undefined == "undefined"
\* Date.now().toString(): the value of the clock is not tracked.
NowId == "now"
\* sender label of system chat entries
SystemSender == "System"

VARIABLES
    rooms,        \* GameServer.rooms: room id -> GameRoom
    connections,  \* GameServer.connections: ws -> {playerId, roomId}
    readyState,   \* ws.readyState of every transport handle
    timers,       \* rooms with a pending setTimeout(broadcastRoomState)
    sent          \* messages written by the last handler, in send order
                  \* (recorded only by a specification that observes the wire)

VARIABLES
    httpRooms,    \* part_001 rooms: room id -> GameRoom (roster: player ids)
    httpPlayers,  \* part_001 players: Map of Player records, insertion order
    now           \* Date.now() as the HTTP handlers read it

\* The state of the HTTP room store.
store == <<httpRooms, httpPlayers, now>>

vars == <<rooms, connections, readyState, timers, sent, httpRooms, httpPlayers, now>>

\* ------------------------------------------------------------ Map helpers

MapSet(m, k, v) == [x \in (DOMAIN m) \cup {k} |-> IF x = k THEN v ELSE m[x]]

MapDelete(m, k) == [x \in (DOMAIN m) \ {k} |-> m[x]]

EmptyMap == [x \in {} |-> x]

\* Map<string, Player> keeps insertion order: a sequence of Player records.
Has(players, id) == \E i \in 1..Len(players) : players[i].id = id

Get(players, id) == players[CHOOSE i \in 1..Len(players) : players[i].id = id]

Delete(players, id) == SelectSeq(players, LAMBDA p : p.id # id)

Ids(players) == [i \in 1..Len(players) |-> players[i].id]

\* String.prototype.toLowerCase on the display names in use.
Lower(name) == IF name = "Alex" THEN "alex" ELSE name

\* String.prototype.trim on the strings in use; undefined?.trim() is undefined.
Trim(str) == IF str = " xyz" THEN "xyz" ELSE str

playerToJSON(player) == [id |-> player.id, name |-> player.name, isHost |-> player.isHost]

PlayersJSON(players) == [i \in 1..Len(players) |-> playerToJSON(players[i])]

Msg(ws, type, roomId, data) == [ws |-> ws, type |-> type, roomId |-> roomId, data |-> data]

\* --------------------------------------------------------------- sending

sendRoomState(rs, ws, roomId) ==
    IF roomId \notin DOMAIN rs \/ readyState[ws] # "OPEN"
    THEN <<>>
    ELSE << Msg(ws, "roomState", roomId,
                [players |-> PlayersJSON(rs[roomId].players),
                 status |-> rs[roomId].status,
                 chatMessages |-> rs[roomId].chatMessages]) >>

\* The roster members a forEach loop writes to: ws set and readyState OPEN.
OpenPlayers(players) == SelectSeq(players, LAMBDA p : readyState[p.ws] = "OPEN")

\* A broadcast that reaches nobody.
broadcastNothing(rs, roomId) == <<>>

broadcastRoomState(rs, roomId) ==
    IF roomId \notin DOMAIN rs THEN <<>>
    ELSE LET open == OpenPlayers(rs[roomId].players)
         IN  [i \in 1..Len(open) |-> sendRoomState(rs, open[i].ws, roomId)[1]]

broadcastToRoom(rs, roomId, type, data) ==
    IF roomId \notin DOMAIN rs THEN <<>>
    ELSE LET open == OpenPlayers(rs[roomId].players)
         IN  [i \in 1..Len(open) |-> Msg(open[i].ws, type, roomId, data)]

broadcastToRoomExcept(rs, roomId, excludePlayerId, type, data) ==
    IF roomId \notin DOMAIN rs THEN <<>>
    ELSE LET open == SelectSeq(OpenPlayers(rs[roomId].players),
                               LAMBDA p : p.id # excludePlayerId)
         IN  [i \in 1..Len(open) |-> Msg(open[i].ws, type, roomId, data)]

\* ------------------------------------------------------------ operations
\* Every method yields the maps it leaves behind and the messages it sends.

Result(ok, rs, cs, out, ts) ==
    [ok |-> ok, rooms |-> rs, connections |-> cs, out |-> out, timers |-> ts]

NewRoom(hostId, maxPlayers, minPlayers, isPrivate, password) ==
    [hostId |-> hostId, players |-> <<>>, maxPlayers |-> maxPlayers,
     minPlayers |-> minPlayers, isPrivate |-> isPrivate, password |-> password,
     status |-> "waiting", chatMessages |-> <<>>]

SystemMessage(name, what) ==
    [id |-> NowId, sender |-> SystemSender, message |-> <<name, what>>, type |-> "system"]

\* A rule that flags no joiner.
NeverHost(room, playerId) == FALSE

\* Player record of a first-time joiner.
NewPlayerIsHost(room, playerId) == Len(room.players) = 0 \/ playerId = room.hostId

\* existingPlayer.ws = ws : the entry keeps its place in the Map.
Rebind(players, playerId, ws) ==
    [i \in 1..Len(players) |->
        IF players[i].id = playerId THEN [players[i] EXCEPT !.ws = ws] ELSE players[i]]

joinRoom(roomId, playerId, playerName, ws, password) ==
    IF roomId \notin DOMAIN rooms
    THEN Result(FALSE, rooms, connections, <<>>, timers)
    ELSE LET room == rooms[roomId] IN
    IF room.isPrivate /\ room.password # password
    THEN Result(FALSE, rooms, connections, <<>>, timers)
    ELSE IF Len(room.players) >= room.maxPlayers
    THEN Result(FALSE, rooms, connections, <<>>, timers)
    ELSE IF Has(room.players, playerId)
    THEN LET rs == [rooms EXCEPT ![roomId].players = Rebind(room.players, playerId, ws)]
         IN  Result(TRUE, rs, MapSet(connections, ws, [playerId |-> playerId, roomId |-> roomId]),
                    sendRoomState(rs, ws, roomId), timers)
    ELSE LET player == [id |-> playerId, name |-> playerName,
                        isHost |-> NewPlayerIsHost(room, playerId), ws |-> ws]
             rs == [rooms EXCEPT
                      ![roomId].players = Append(room.players, player),
                      ![roomId].chatMessages =
                          Append(room.chatMessages, SystemMessage(playerName, "joined"))]
         IN  Result(TRUE, rs, MapSet(connections, ws, [playerId |-> playerId, roomId |-> roomId]),
                    sendRoomState(rs, ws, roomId)
                      \o broadcastToRoomExcept(rs, roomId, playerId, "playerJoined",
                                               playerToJSON(player)),
                    timers \cup {roomId})

\* A succession that picks the latest joiner instead of the earliest.
NewHostLatest(players) == players[Len(players)]

\* Array.from(room.players.values())[0]
NewHost(players) == players[1]

PromoteNewHost(players) ==
    [i \in 1..Len(players) |->
        IF players[i].id = NewHost(players).id
        THEN [players[i] EXCEPT !.isHost = TRUE] ELSE players[i]]

leaveRoom(rs0, playerId, roomId) ==
    IF roomId \notin DOMAIN rs0 THEN [rooms |-> rs0, out |-> <<>>]
    ELSE LET room == rs0[roomId] IN
    IF ~Has(room.players, playerId) THEN [rooms |-> rs0, out |-> <<>>]
    ELSE LET player == Get(room.players, playerId)
             rest == Delete(room.players, playerId)
         IN
         IF Len(rest) = 0 THEN [rooms |-> MapDelete(rs0, roomId), out |-> <<>>]
         ELSE LET hosted == IF player.isHost
                            THEN [room EXCEPT !.players = PromoteNewHost(rest),
                                              !.hostId = NewHost(rest).id]
                            ELSE [room EXCEPT !.players = rest]
                  rs == [rs0 EXCEPT ![roomId] =
                            [hosted EXCEPT !.chatMessages =
                                Append(room.chatMessages, SystemMessage(player.name, "left"))]]
              IN  [rooms |-> rs,
                   out |-> broadcastToRoom(rs, roomId, "playerLeft", playerId)
                             \o broadcastRoomState(rs, roomId)]

NoPlayer == "null"

\* First roster member whose name is exactly senderName, else null.
getPlayerIdBySender(rs, roomId, senderName) ==
    IF roomId \notin DOMAIN rs THEN NoPlayer
    ELSE LET ps == rs[roomId].players
             hits == {i \in 1..Len(ps) : ps[i].name = senderName}
         IN  IF hits = {} THEN NoPlayer
             ELSE ps[CHOOSE i \in hits : \A j \in hits : i <= j].id

addChatMessage(roomId, sender, message, messageId) ==
    IF roomId \notin DOMAIN rooms THEN [rooms |-> rooms, out |-> <<>>]
    ELSE LET chatMessage == [id |-> messageId, sender |-> sender,
                             message |-> message, type |-> "user"]
             rs == [rooms EXCEPT ![roomId].chatMessages = Append(@, chatMessage)]
         IN  [rooms |-> rs,
              out |-> broadcastToRoomExcept(rs, roomId,
                          getPlayerIdBySender(rs, roomId, sender),
                          "chatMessage", chatMessage)]

\* The guard of startGame: the checks that let the game start.
StartAllowed(room, hostId) ==
    /\ room.hostId = hostId
    /\ ~(Len(room.players) < room.minPlayers)

startGame(roomId, hostId) ==
    IF roomId \notin DOMAIN rooms \/ ~StartAllowed(rooms[roomId], hostId)
    THEN [rooms |-> rooms, out |-> <<>>]
    ELSE LET rs == [rooms EXCEPT ![roomId].status = "playing"]
         IN  [rooms |-> rs,
              out |-> broadcastToRoom(rs, roomId, "gameStarted",
                                      PlayersJSON(rs[roomId].players))]

\* --------------------------------------------------------------- actions

\* What the last handler wrote, when the specification observes the wire.
Wire(U, out) == IF U.observe THEN out ELSE <<>>

ChatBounded(rs) == \A r \in DOMAIN rs : Len(rs[r].chatMessages) <= MaxChat

Init ==
    /\ rooms = EmptyMap
    /\ connections = EmptyMap
    /\ readyState = [c \in Conns |-> "NONE"]
    /\ timers = {}
    /\ sent = <<>>
    /\ httpRooms = EmptyMap
    /\ httpPlayers = <<>>
    /\ now = 0

\* generateRoomId / generatePlayerId draw at random: any id may come out.
createRoom(roomId, hostId, maxPlayers, minPlayers, isPrivate, password) ==
    /\ rooms' = MapSet(rooms, roomId,
                       NewRoom(hostId, maxPlayers, minPlayers, isPrivate, password))
    /\ sent' = <<>>
    /\ UNCHANGED <<connections, readyState, timers, store>>

CreateRoom(U) ==
    \E roomId \in U.rooms, hostId \in U.hostIds,
       maxPlayers \in U.maxPlayers, minPlayers \in U.minPlayers,
       priv \in {<<FALSE, Undefined>>, <<TRUE, "xyz">>} :
        createRoom(roomId, hostId, maxPlayers, minPlayers, priv[1], priv[2])

handleConnection(ws) ==
    /\ readyState[ws] = "NONE"
    /\ readyState' = [readyState EXCEPT ![ws] = "OPEN"]
    /\ sent' = <<>>
    /\ UNCHANGED <<rooms, connections, timers, store>>

HandleConnection(U) == \E ws \in U.conns : handleConnection(ws)

\* An error that goes to the other connection as well.
ErrorToAll(ws) ==
    << Msg(ws, "error", "", ""), Msg(CHOOSE c \in Conns : c # ws, "error", "", "") >>

\* ws.send(JSON.stringify({ type: "error", ... }))
ErrorMsg(ws) == << Msg(ws, "error", "", "") >>

\* if (!success) ws.send(error): what handleMessage writes for a joinRoom.
joinReply(ws, r) == IF r.ok THEN r.out ELSE ErrorMsg(ws)

\* case "joinRoom": whatever secret the message carries, joinRoom is called
\* with four arguments, its password parameter left undefined.
handleJoinRoom(ws, roomId, playerId, playerName, secret) ==
    joinRoom(roomId, playerId, playerName, ws, Undefined)

HandleJoinRoom(U) ==
    \E ws \in U.conns, roomId \in U.rooms, playerId \in U.players,
       playerName \in U.names, secret \in U.secrets :
        /\ readyState[ws] = "OPEN"
        /\ LET r == handleJoinRoom(ws, roomId, playerId, playerName, secret) IN
            /\ ChatBounded(r.rooms)
            /\ rooms' = r.rooms
            /\ connections' = r.connections
            /\ timers' = r.timers
            /\ sent' = Wire(U, joinReply(ws, r))
        /\ UNCHANGED <<readyState, store>>

HandleLeaveRoom(U) ==
    \E roomId \in U.rooms, playerId \in U.players :
        /\ \E ws \in U.conns : readyState[ws] = "OPEN"
        /\ LET r == leaveRoom(rooms, playerId, roomId) IN
            /\ ChatBounded(r.rooms)
            /\ rooms' = r.rooms
            /\ sent' = Wire(U, r.out)
        /\ UNCHANGED <<connections, readyState, timers, store>>

\* message.data.id || Date.now().toString()
ChatId(id) == IF id = Undefined THEN NowId ELSE id

\* A value an if of JavaScript takes for false.
Falsy(v) == v = "" \/ v = Undefined

\* case "chatMessage": dispatched when sender and body are present.
handleChatMessage(roomId, sender, message, id) ==
    IF Falsy(sender) \/ Falsy(message) THEN [rooms |-> rooms, out |-> <<>>]
    ELSE addChatMessage(roomId, sender, message, ChatId(id))

\* The bodies the clients of a universe send.
Said(U) == IF "bodies" \in DOMAIN U THEN U.bodies ELSE Bodies

HandleChatMessage(U) ==
    \E roomId \in U.rooms, sender \in U.names, message \in Said(U), id \in U.msgIds :
        /\ \E ws \in U.conns : readyState[ws] = "OPEN"
        /\ LET r == handleChatMessage(roomId, sender, message, id) IN
            /\ ChatBounded(r.rooms)
            /\ rooms' = r.rooms
            /\ sent' = Wire(U, r.out)
        /\ UNCHANGED <<connections, readyState, timers, store>>

HandleStartGame(U) ==
    \E roomId \in U.rooms, playerId \in U.players :
        /\ \E ws \in U.conns : readyState[ws] = "OPEN"
        /\ LET r == startGame(roomId, playerId) IN
            /\ rooms' = r.rooms
            /\ sent' = Wire(U, r.out)
        /\ UNCHANGED <<connections, readyState, timers, store>>

HandleGetRoomState(U) ==
    \E ws \in U.conns, roomId \in U.rooms :
        /\ readyState[ws] = "OPEN"
        /\ sent' = Wire(U, sendRoomState(rooms, ws, roomId))
        /\ UNCHANGED <<rooms, connections, readyState, timers, store>>

\* default: of handleMessage: the tag is logged, nothing is sent or changed.
handleUnknown(ws) == [rooms |-> rooms, connections |-> connections, out |-> <<>>]

HandleUnknown(U) ==
    \E ws \in U.conns :
        /\ readyState[ws] = "OPEN"
        /\ LET r == handleUnknown(ws) IN
            /\ rooms' = r.rooms
            /\ connections' = r.connections
            /\ sent' = Wire(U, r.out)
        /\ UNCHANGED <<readyState, timers, store>>

\* ws.on("close"): the transport is closed when the callback runs.
OnClose(U) ==
    \E ws \in U.conns :
        /\ readyState[ws] = "OPEN"
        /\ readyState' = [readyState EXCEPT ![ws] = "CLOSED"]
        /\ IF ws \in DOMAIN connections
           THEN LET r == leaveRoom(rooms, connections[ws].playerId, connections[ws].roomId) IN
                /\ ChatBounded(r.rooms)
                /\ rooms' = r.rooms
                /\ sent' = Wire(U, r.out)
                /\ connections' = MapDelete(connections, ws)
           ELSE /\ sent' = <<>>
                /\ UNCHANGED <<rooms, connections>>
        /\ UNCHANGED <<timers, store>>

\* setTimeout(() => this.broadcastRoomState(roomId), 100) of joinRoom.
BroadcastTimer(U) ==
    \E roomId \in timers :
        /\ timers' = timers \ {roomId}
        /\ sent' = Wire(U, broadcastRoomState(rooms, roomId))
        /\ UNCHANGED <<rooms, connections, readyState, store>>

Next ==
    \/ CreateRoom(Lobby)
    \/ HandleConnection(Lobby)
    \/ HandleJoinRoom(Lobby)
    \/ HandleLeaveRoom(Lobby)
    \/ HandleChatMessage(Lobby)
    \/ HandleStartGame(Lobby)
    \/ HandleGetRoomState(Lobby)
    \/ OnClose(Lobby)
    \/ BroadcastTimer(Lobby)

Spec == Init /\ [][Next]_vars

NextChat ==
    \/ CreateRoom(Chat)
    \/ HandleConnection(Chat)
    \/ HandleJoinRoom(Chat)
    \/ HandleLeaveRoom(Chat)
    \/ HandleChatMessage(Chat)
    \/ HandleStartGame(Chat)
    \/ HandleGetRoomState(Chat)
    \/ OnClose(Chat)
    \/ BroadcastTimer(Chat)

SpecChat == Init /\ [][NextChat]_vars

\* -------------------------------------------------------- HTTP room store

\* const timeout = 30 * 60 * 1000 (milliseconds)
timeout == 30 * 60 * 1000

\* const maxRooms = 100, and the literal of the create branch
maxRooms == 100

\* One advance of the clock: a little over half the stale timeout, so a
\* record is fresh one advance after it was touched and stale after two.
TickMs == timeout \div 2 + 1

\* The values the requests of a specification of the store are drawn from:
\* room codes generateRoomCode may return, <<playerId, playerName>> of the
\* create requests (creators) and of the join requests (callers; playerId
\* may be omitted), playerId of the PUT and DELETE requests, ids generateId
\* may return, <<isPrivate, password>> of a create, passwords of a join,
\* requested player bounds (minPlayers 0: omitted), chat bodies.
Store ==
    [codes |-> {"R1", "R2"},
     creators |-> {<<"p1", "alex">>, <<"p2", "bob">>},
     callers |-> {<<"p1", "alex">>, <<"p2", "bob">>},
     beating |-> {"p1", "p2"}, leaving |-> {"p1", "p2"},
     generated |-> {},
     privacy |-> {<<FALSE, Undefined>>},
     passwords |-> {Undefined},
     maxPlayers |-> {4}, minPlayers |-> {0},
     bodies |-> {"hi"}, inTurn |-> FALSE]

\* One room and more callers than the smallest maxPlayers admits.
Full ==
    [codes |-> {"R1"},
     creators |-> {<<"p1", "alex">>},
     callers |-> {<<"p2", "bob">>, <<"p3", "eve">>, <<"p4", "dan">>, <<"p5", "kim">>},
     beating |-> {"p2"}, leaving |-> {"p1"},
     generated |-> {},
     privacy |-> {<<FALSE, Undefined>>},
     passwords |-> {Undefined},
     maxPlayers |-> {3}, minPlayers |-> {0},
     bodies |-> {"hi"}, inTurn |-> FALSE]

\* One private room, secrets right, wrong, padded and omitted, a caller
\* without an id.
Private ==
    [codes |-> {"R1"},
     creators |-> {<<"p1", "alex">>},
     callers |-> {<<"p2", "Alex">>, <<Undefined, "bob">>},
     beating |-> {"p1"}, leaving |-> {"g1"},
     generated |-> {"g1"},
     privacy |-> {<<TRUE, " xyz">>},
     passwords |-> {Undefined, "xyz", " xyz", "abc"},
     maxPlayers |-> {12}, minPlayers |-> {9},
     bodies |-> {"hi"}, inTurn |-> FALSE]

Min(a, b) == IF a < b THEN a ELSE b

Max(a, b) == IF a > b THEN a ELSE b

\* minPlayers || 4 : an omitted or zero bound falls back to the default.
OrElse(value, default) == IF value = 0 THEN default ELSE value

Includes(ids, id) == \E i \in 1..Len(ids) : ids[i] = id

\* A filter that keeps every id.
Keep(ids, playerId) == ids

\* room.players.filter((id) => id !== playerId)
Without(ids, playerId) == SelectSeq(ids, LAMBDA id : id # playerId)

\* players.set(id, player): a present key keeps its place in the Map.
Set(players, player) ==
    IF Has(players, player.id)
    THEN [i \in 1..Len(players) |->
            IF players[i].id = player.id THEN player ELSE players[i]]
    ELSE Append(players, player)

\* player.lastSeen = Date.now(), when the record exists
Touch(players, playerId, t) ==
    [i \in 1..Len(players) |->
        IF players[i].id = playerId THEN [players[i] EXCEPT !.lastSeen = t]
        ELSE players[i]]

\* newHost.isHost = true, when the record exists
MakeHost(players, playerId) ==
    [i \in 1..Len(players) |->
        IF players[i].id = playerId THEN [players[i] EXCEPT !.isHost = TRUE]
        ELSE players[i]]

\* A succession that names nobody.
NoSuccessor(ids) == Undefined

\* room.players[0] after the filter
FirstRemaining(ids) == ids[1]

\* The room part of a removal, shared by DELETE and the sweep: the roster
\* loses the id, a system entry is pushed, an empty room is deleted, a room
\* that lost its hostId gets the first remaining id as host.
removeFromRoom(rs, ps, player, what) ==
    IF player.roomId = Undefined \/ player.roomId \notin DOMAIN rs
    THEN [rooms |-> rs, players |-> ps]
    ELSE LET room == rs[player.roomId]
             rest == Without(room.players, player.id)
             left == [room EXCEPT
                        !.players = rest,
                        !.chatMessages = Append(@, SystemMessage(player.name, what))]
         IN  IF Len(rest) = 0
             THEN [rooms |-> MapDelete(rs, player.roomId), players |-> ps]
             ELSE IF room.hostId = player.id
             THEN [rooms |-> [rs EXCEPT ![player.roomId] =
                                [left EXCEPT !.hostId = FirstRemaining(rest)]],
                   players |-> MakeHost(ps, FirstRemaining(rest))]
             ELSE [rooms |-> [rs EXCEPT ![player.roomId] = left], players |-> ps]

Stale(t, stamp) == t - stamp > timeout

\* First loop of cleanup: the entries of players in insertion order; a stale
\* one is deleted and taken out of its room.
RECURSIVE SweepPlayers(_, _, _, _)
SweepPlayers(rs, ps, ids, t) ==
    IF ids = <<>> THEN [rooms |-> rs, players |-> ps]
    ELSE LET player == Get(ps, Head(ids)) IN
         IF Stale(t, player.lastSeen)
         THEN LET r == removeFromRoom(rs, Delete(ps, player.id), player, "disconnected")
              IN  SweepPlayers(r.rooms, r.players, Tail(ids), t)
         ELSE SweepPlayers(rs, ps, Tail(ids), t)

\* Second loop of cleanup: empty rooms and rooms not updated for the timeout.
SweepRooms(rs, t) ==
    [r \in {x \in DOMAIN rs :
              ~(Len(rs[x].players) = 0 \/ Stale(t, rs[x].lastUpdate))} |-> rs[r]]

\* Third step of cleanup: over the cap the oldest rooms go (equal createdAt:
\* Map order, which this model does not keep; create refuses at the cap, so
\* the registry never exceeds it).
RECURSIVE EvictOldest(_)
EvictOldest(rs) ==
    IF Cardinality(DOMAIN rs) > maxRooms
    THEN EvictOldest(MapDelete(rs,
            CHOOSE r \in DOMAIN rs :
                \A q \in DOMAIN rs : rs[r].createdAt <= rs[q].createdAt))
    ELSE rs

cleanup(rs, ps, t) ==
    LET swept == SweepPlayers(rs, ps, Ids(ps), t)
    IN  [rooms |-> EvictOldest(SweepRooms(swept.rooms, t)), players |-> swept.players]

\* The outcome of a POST branch: success flag, error text, the maps left.
Reply(ok, error, rs, ps) == [ok |-> ok, error |-> error, rooms |-> rs, players |-> ps]

\* action === "create", after the sweep; newPlayerId and newRoomId are
\* playerId || generateId() and generateRoomCode().
\* A limit check that never refuses.
NoRoomLimit(rs) == FALSE

\* rooms.size >= 100
AtRoomLimit(rs) == Cardinality(DOMAIN rs) >= maxRooms

create(rs, ps, t, newPlayerId, newRoomId, playerName, maxPlayers, minPlayers, isPrivate, password) ==
    IF AtRoomLimit(rs) THEN Reply(FALSE, "room limit", rs, ps)
    ELSE IF maxPlayers = 0 THEN Reply(FALSE, "missing fields", rs, ps)
    ELSE LET player == [id |-> newPlayerId, name |-> Trim(playerName),
                        roomId |-> newRoomId, lastSeen |-> t, isHost |-> TRUE]
             room == [hostId |-> newPlayerId,
                      players |-> <<newPlayerId>>,
                      maxPlayers |-> Min(Max(maxPlayers, 4), 10),
                      minPlayers |-> Min(Max(OrElse(minPlayers, 4), 4), 8),
                      isPrivate |-> isPrivate,
                      password |-> IF isPrivate THEN Trim(password) ELSE Undefined,
                      status |-> "waiting",
                      lastUpdate |-> t,
                      createdAt |-> t,
                      chatMessages |-> << SystemMessage(Trim(playerName), "welcome"),
                                          SystemMessage(Trim(playerName), "created") >>]
         IN  Reply(TRUE, "", MapSet(rs, newRoomId, room), Set(ps, player))

\* A password check that lets every secret pass.
AnyPassword(room, password) == FALSE

\* room.isPrivate && room.password !== password?.trim()
WrongPassword(room, password) == room.isPrivate /\ room.password # Trim(password)

\* A capacity check that lets one player too many in.
RoomOverfull(room) == Len(room.players) > room.maxPlayers

\* room.players.length >= room.maxPlayers
RoomFull(room) == Len(room.players) >= room.maxPlayers

\* A name check that finds every name free.
NameFree(room, ps, playerName) == FALSE

\* The roster member, if any, whose record holds playerName up to case.
NameTaken(room, ps, playerName) ==
    \E i \in 1..Len(room.players) :
        /\ Has(ps, room.players[i])
        /\ Lower(Get(ps, room.players[i]).name) = Lower(Trim(playerName))

\* action === "join", after the sweep; newPlayerId is playerId || generateId().
join(rs, ps, t, roomId, newPlayerId, playerName, password) ==
    IF Trim(roomId) \notin DOMAIN rs THEN Reply(FALSE, "not found", rs, ps)
    ELSE LET room == rs[Trim(roomId)] IN
    IF WrongPassword(room, password) THEN Reply(FALSE, "wrong password", rs, ps)
    ELSE IF RoomFull(room) THEN Reply(FALSE, "full", rs, ps)
    ELSE IF room.status # "waiting" THEN Reply(FALSE, "started", rs, ps)
    ELSE IF Includes(room.players, newPlayerId)
    THEN Reply(TRUE, "", rs, Touch(ps, newPlayerId, t))
    ELSE IF NameTaken(room, ps, playerName) THEN Reply(FALSE, "name taken", rs, ps)
    ELSE LET player == [id |-> newPlayerId, name |-> Trim(playerName),
                        roomId |-> Trim(roomId), lastSeen |-> t, isHost |-> FALSE]
         IN  Reply(TRUE, "",
                   [rs EXCEPT ![Trim(roomId)] =
                       [room EXCEPT
                          !.players = Append(@, newPlayerId),
                          !.lastUpdate = t,
                          !.chatMessages = Append(@, SystemMessage(Trim(playerName), "joined"))]],
                   Set(ps, player))

\* POST with action "create": the sweep, then the create branch.
postCreate(rs, ps, t, newPlayerId, newRoomId, playerName, maxPlayers, minPlayers, isPrivate, password) ==
    LET swept == cleanup(rs, ps, t)
    IN  create(swept.rooms, swept.players, t, newPlayerId, newRoomId, playerName,
               maxPlayers, minPlayers, isPrivate, password)

\* POST with action "join": the sweep, then the join branch.
postJoin(rs, ps, t, roomId, newPlayerId, playerName, password) ==
    LET swept == cleanup(rs, ps, t)
    IN  join(swept.rooms, swept.players, t, roomId, newPlayerId, playerName, password)

\* A heartbeat that leaves the room's stamp as it was.
LeaveStamp(rs, roomId, t) == rs

\* room.lastUpdate = Date.now()
TouchRoom(rs, roomId, t) == [rs EXCEPT ![roomId].lastUpdate = t]

\* PUT: heartbeat of playerId.
heartbeat(rs, ps, t, playerId) ==
    IF ~Has(ps, playerId) THEN [rooms |-> rs, players |-> ps]
    ELSE LET player == Get(ps, playerId) IN
         [rooms |-> IF player.roomId # Undefined /\ player.roomId \in DOMAIN rs
                    THEN TouchRoom(rs, player.roomId, t) ELSE rs,
          players |-> Touch(ps, playerId, t)]

\* DELETE: playerId leaves its room.
leave(rs, ps, playerId) ==
    IF ~Has(ps, playerId) \/ Get(ps, playerId).roomId = Undefined
    THEN [rooms |-> rs, players |-> ps]
    ELSE LET r == removeFromRoom(rs, ps, Get(ps, playerId), "left")
         IN  [rooms |-> r.rooms, players |-> Delete(r.players, playerId)]

\* addChatMessage of the store: a user entry, and the room is touched.
postChatMessage(rs, t, roomId, sender, message) ==
    IF roomId \notin DOMAIN rs THEN rs
    ELSE [rs EXCEPT
            ![roomId].chatMessages =
                Append(@, [id |-> NowId, sender |-> sender, message |-> message,
                           type |-> "user"]),
            ![roomId].lastUpdate = t]

LogBounded(rs) == \A r \in DOMAIN rs : Len(rs[r].chatMessages) <= MaxLog

\* The ids of the Player records.
Directory(ps) == {ps[i].id : i \in 1..Len(ps)}

\* generateId(): an id that no Player record holds.
generateId(U, ps) == U.generated \ Directory(ps)

\* The n-th room code of a registry filled to the cap.
Code(n) == "C" \o ToString(n)

\* The first of the codes Code(1), Code(2), ... that is not in the registry.
NextCode(rs) ==
    {Code(n) : n \in {k \in 1..(maxRooms + 1) :
        /\ Code(k) \notin DOMAIN rs
        /\ \A j \in 1..(k - 1) : Code(j) \in DOMAIN rs}}

\* generateRoomCode(): a room code that is not in the registry; a universe
\* may have the codes drawn in turn.
generateRoomCode(U, rs) == IF U.inTurn THEN NextCode(rs) ELSE U.codes \ DOMAIN rs

\* The codes a specification draws in turn that were added to the registry
\* at time t, in the order of the draw.
AddedAt(rs, t) ==
    SelectSeq([n \in 1..(maxRooms + 1) |-> Code(n)],
              LAMBDA c : c \in DOMAIN rs /\ rs[c].createdAt = t)

RECURSIVE AddedFrom(_, _)
AddedFrom(rs, k) ==
    IF k > MaxTicks THEN <<>> ELSE AddedAt(rs, k * TickMs) \o AddedFrom(rs, k + 1)

\* Array.from(rooms.values()): the rooms in the order they were added to the
\* Map. Codes drawn in turn give that order; otherwise any order may be it.
Values(U, rs) ==
    IF U.inTurn THEN {AddedFrom(rs, 0)}
    ELSE {ids \in [1..Cardinality(DOMAIN rs) -> DOMAIN rs] :
             \A i, j \in DOMAIN ids : ids[i] = ids[j] => i = j}

\* A listing filter that lets every room through.
ListedAll(room) == TRUE

\* !room.isPrivate && room.status === "waiting"
Listed(room) == ~room.isPrivate /\ room.status = "waiting"

\* One entry of the listing.
Entry(rs, roomId) ==
    [id |-> roomId, players |-> Len(rs[roomId].players),
     maxPlayers |-> rs[roomId].maxPlayers, status |-> rs[roomId].status,
     isPrivate |-> rs[roomId].isPrivate]

listLimit == 50

\* publicRooms of GET: filter, map, slice(0, 50), over the rooms in order.
publicRooms(rs, values) ==
    LET shown == SelectSeq(values, LAMBDA roomId : Listed(rs[roomId]))
        entries == [i \in DOMAIN shown |-> Entry(rs, shown[i])]
    IN  SubSeq(entries, 1, Min(Len(entries), listLimit))

\* playerId || generateId()
NewPlayerId(U, ps, playerId) ==
    IF playerId = Undefined THEN generateId(U, ps) ELSE {playerId}

GET(U) ==
    LET swept == cleanup(httpRooms, httpPlayers, now) IN
        /\ LogBounded(swept.rooms)
        /\ httpRooms' = swept.rooms
        /\ httpPlayers' = swept.players
        /\ UNCHANGED <<now, rooms, connections, readyState, timers, sent>>

POSTcreate(U) ==
    LET swept == cleanup(httpRooms, httpPlayers, now) IN
    \E caller \in U.creators, priv \in U.privacy,
       maxPlayers \in U.maxPlayers, minPlayers \in U.minPlayers :
    \E newPlayerId \in NewPlayerId(U, swept.players, caller[1]),
       newRoomId \in generateRoomCode(U, swept.rooms) :
        LET r == create(swept.rooms, swept.players, now, newPlayerId, newRoomId,
                        caller[2], maxPlayers, minPlayers, priv[1], priv[2])
        IN  /\ LogBounded(r.rooms)
            /\ httpRooms' = r.rooms
            /\ httpPlayers' = r.players
            /\ UNCHANGED <<now, rooms, connections, readyState, timers, sent>>

POSTjoin(U) ==
    LET swept == cleanup(httpRooms, httpPlayers, now) IN
    \E roomId \in U.codes, caller \in U.callers, password \in U.passwords :
    \E newPlayerId \in NewPlayerId(U, swept.players, caller[1]) :
        LET r == join(swept.rooms, swept.players, now, roomId, newPlayerId,
                      caller[2], password)
        IN  /\ LogBounded(r.rooms)
            /\ httpRooms' = r.rooms
            /\ httpPlayers' = r.players
            /\ UNCHANGED <<now, rooms, connections, readyState, timers, sent>>

PUT(U) ==
    \E playerId \in U.beating :
        LET r == heartbeat(httpRooms, httpPlayers, now, playerId)
        IN  /\ httpRooms' = r.rooms
            /\ httpPlayers' = r.players
            /\ UNCHANGED <<now, rooms, connections, readyState, timers, sent>>

DELETE(U) ==
    \E playerId \in U.leaving :
        LET r == leave(httpRooms, httpPlayers, playerId)
        IN  /\ LogBounded(r.rooms)
            /\ httpRooms' = r.rooms
            /\ httpPlayers' = r.players
            /\ UNCHANGED <<now, rooms, connections, readyState, timers, sent>>

PostChatMessage(U) ==
    \E roomId \in U.codes, caller \in U.callers, message \in U.bodies :
        LET rs == postChatMessage(httpRooms, now, roomId, caller[2], message)
        IN  /\ LogBounded(rs)
            /\ httpRooms' = rs
            /\ UNCHANGED <<httpPlayers, now, rooms, connections, readyState, timers, sent>>

\* Time passes between two requests.
Tick ==
    /\ now < MaxTicks * TickMs
    /\ now' = now + TickMs
    /\ UNCHANGED <<httpRooms, httpPlayers, rooms, connections, readyState, timers, sent>>

NextStore ==
    \/ GET(Store)
    \/ POSTcreate(Store)
    \/ POSTjoin(Store)
    \/ PUT(Store)
    \/ DELETE(Store)
    \/ Tick

SpecStore == Init /\ [][NextStore]_vars

NextFull ==
    \/ GET(Full)
    \/ POSTcreate(Full)
    \/ POSTjoin(Full)
    \/ PUT(Full)
    \/ DELETE(Full)
    \/ Tick

SpecFull == Init /\ [][NextFull]_vars

NextPrivate ==
    \/ GET(Private)
    \/ POSTcreate(Private)
    \/ POSTjoin(Private)
    \/ PUT(Private)
    \/ DELETE(Private)
    \/ PostChatMessage(Private)
    \/ Tick

SpecPrivate == Init /\ [][NextPrivate]_vars

\* One room code more than the cap admits, drawn in turn, one caller.
Cap ==
    [codes |-> {Code(n) : n \in 1..(maxRooms + 1)},
     creators |-> {<<"p1", "alex">>},
     callers |-> {},
     beating |-> {"p1"}, leaving |-> {"p1"},
     generated |-> {},
     privacy |-> {<<FALSE, Undefined>>},
     passwords |-> {Undefined},
     maxPlayers |-> {4}, minPlayers |-> {0},
     bodies |-> {"hi"}, inTurn |-> TRUE]

\* Every fourth of the rooms the store starts with is private.
PrivateAt(n) == n % 4 = 0

\* What a create request of caller p1 at time 0 that draws the n-th room
\* code adds to the maps (below the cap the room and the record it writes
\* do not depend on what the maps hold).
Created(n) ==
    create(EmptyMap, <<>>, 0, "p1", Code(n), "alex", 4, 0, PrivateAt(n),
           IF PrivateAt(n) THEN "xyz" ELSE Undefined)

\* The maps after n such requests, the codes drawn in turn: n rooms, and
\* the one record of p1 as the last request wrote it.
Filled(n) ==
    [rooms |-> [c \in {Code(k) : k \in 1..n} |->
                  Created(CHOOSE k \in 1..n : Code(k) = c).rooms[c]],
     players |-> Created(n).players]

\* The store one room short of the cap.
InitCap ==
    /\ rooms = EmptyMap
    /\ connections = EmptyMap
    /\ readyState = [c \in Conns |-> "NONE"]
    /\ timers = {}
    /\ sent = <<>>
    /\ httpRooms = Filled(maxRooms - 1).rooms
    /\ httpPlayers = Filled(maxRooms - 1).players
    /\ now = 0

NextCap ==
    \/ GET(Cap)
    \/ POSTcreate(Cap)
    \/ Tick

SpecCap == InitCap /\ [][NextCap]_vars

\* ---------------------------------------------------------------- claims

Roster(r) == rooms[r].players

Hosts(players) == {i \in 1..Len(players) : players[i].isHost}

AllPlayers == Lobby.players

OpenConns == {c \in Conns : readyState[c] = "OPEN"}

\* C1: every room with a non-empty roster has exactly one member with
\* isHost = TRUE.
C1_ExactlyOneHost ==
    \A r \in DOMAIN rooms :
        Len(Roster(r)) > 0 => Cardinality(Hosts(Roster(r))) = 1

\* C2: every room in the rooms map has 1 <= roster size <= maxPlayers.
C2_RosterWithinBounds ==
    \A r \in DOMAIN rooms :
        1 <= Len(Roster(r)) /\ Len(Roster(r)) <= rooms[r].maxPlayers

\* A step in which player p, flagged host, leaves room r and members remain.
HostLeft(r, p) ==
    /\ r \in DOMAIN rooms /\ r \in DOMAIN rooms'
    /\ Has(Roster(r), p) /\ Get(Roster(r), p).isHost
    /\ Len(Roster(r)) >= 2
    /\ Ids(rooms'[r].players) = Ids(Delete(Roster(r), p))

\* Members of both rosters keep their relative order and a newcomer is last:
\* the roster order is the join order, whatever reconnects happen.
JoinOrderKept(r) ==
    LET old == Ids(Roster(r))
        new == Ids(rooms'[r].players)
        InOld(x) == \E i \in 1..Len(old) : old[i] = x
        InNew(x) == \E i \in 1..Len(new) : new[i] = x
    IN  /\ SelectSeq(new, InOld) = SelectSeq(old, InNew)
        /\ \A i \in 1..Len(new) : ~InOld(new[i]) => i = Len(new) /\ Len(new) = Len(old) + 1

\* C3: when the flagged host leaves and members remain, hostId and the host
\* flag pass to the earliest-joined remaining member; a surviving room's
\* roster keeps join order across every step (reconnects included).
C3_HostPassesToEarliestJoined ==
    [][\A r \in DOMAIN rooms :
          /\ (r \in DOMAIN rooms' /\ rooms'[r].players # <<>>) => JoinOrderKept(r)
          /\ \A p \in AllPlayers :
                HostLeft(r, p) =>
                    /\ rooms'[r].hostId = Ids(Delete(Roster(r), p))[1]
                    /\ rooms'[r].players[1].isHost]_vars

CountOf(log, what) ==
    Cardinality({i \in 1..Len(log) : log[i].type = "system" /\ log[i].message[2] = what})

\* Three members joined and one left, the last thing the log records; the
\* room, created with host id p1, now names another host and p1 is gone, so
\* the one who left was p1 holding the host flag, with two members remaining.
C3_Witness ==
    \E r \in DOMAIN rooms :
        LET log == rooms[r].chatMessages IN
        /\ Len(Roster(r)) = 2
        /\ CountOf(log, "joined") = 3
        /\ CountOf(log, "left") = 1
        /\ log[Len(log)].type = "system" /\ log[Len(log)].message[2] = "left"
        /\ ~Has(Roster(r), "p1")
        /\ rooms[r].hostId # "p1"

\* C4: joinRoom with an id already in the roster, on any open connection,
\* succeeds, keeps the roster's members and order, and binds the connection,
\* in every room state (a roster at maxPlayers included).
C4_RejoinAlwaysAccepted ==
    \A r \in DOMAIN rooms : \A i \in 1..Len(Roster(r)) : \A ws \in OpenConns :
        LET p == Roster(r)[i].id
            res == joinRoom(r, p, Roster(r)[i].name, ws, Undefined)
        IN  /\ res.ok
            /\ Ids(res.rooms[r].players) = Ids(Roster(r))
            /\ res.rooms[r].players[i].ws = ws
            /\ res.connections[ws] = [playerId |-> p, roomId |-> r]

FlaggedHost(r, p) == Has(Roster(r), p) /\ Get(Roster(r), p).isHost

\* C5: in a waiting room startGame(roomId, requesterId) sets the status to
\* playing exactly when the requester holds the host flag in the roster and
\* roster size >= minPlayers; otherwise nothing changes and nothing is sent.
C5_StartExactlyByFlaggedHost ==
    \A r \in DOMAIN rooms : \A p \in AllPlayers :
        rooms[r].status = "waiting" =>
            LET res == startGame(r, p)
                due == FlaggedHost(r, p) /\ Len(Roster(r)) >= rooms[r].minPlayers
            IN  /\ due => res.rooms[r].status = "playing"
                /\ ~due => res.rooms = rooms /\ res.out = <<>>

\* C6: once a room is playing every startGame request is rejected: it sends
\* no gameStarted.
C6_NoStartWhilePlaying ==
    \A r \in DOMAIN rooms : \A p \in AllPlayers :
        rooms[r].status # "waiting" => startGame(r, p).out = <<>>

\* C7: the roster of a room that is playing or finished never gains a member.
C7_NoNewJoinUnlessWaiting ==
    [][\A r \in DOMAIN rooms :
          (r \in DOMAIN rooms' /\ rooms[r].status # "waiting") =>
              \A i \in 1..Len(rooms'[r].players) :
                  Has(Roster(r), rooms'[r].players[i].id)]_vars

\* C8: a chat log never holds two user entries with the same client message id.
C8_ChatDeduplicated ==
    \A r \in DOMAIN rooms :
        \A i, j \in 1..Len(rooms[r].chatMessages) :
            LET log == rooms[r].chatMessages IN
            (i # j /\ log[i].type = "user" /\ log[j].type = "user" /\ log[i].id # NowId)
                => log[i].id # log[j].id

\* Connection c still has an index entry for player p of room r although p is
\* now bound to another connection.
Superseded(c, p, r) ==
    /\ c \in DOMAIN connections
    /\ connections[c] = [playerId |-> p, roomId |-> r]
    /\ r \in DOMAIN rooms /\ Has(Roster(r), p) /\ Get(Roster(r), p).ws # c

\* C9: the close event of a superseded connection neither removes the player
\* from the roster nor changes the player's bound connection.
C9_SupersededCloseKeepsPlayer ==
    [][\A c \in Conns : \A p \in AllPlayers : \A r \in DOMAIN rooms :
          (Superseded(c, p, r) /\ readyState[c] = "OPEN" /\ readyState'[c] = "CLOSED") =>
              /\ r \in DOMAIN rooms' /\ Has(rooms'[r].players, p)
              /\ Get(rooms'[r].players, p).ws = Get(Roster(r), p).ws]_vars

\* C10: at most one entry of the connection index is bound to a player id.
C10_OneBindingPerPlayer ==
    \A c, d \in DOMAIN connections :
        c # d => connections[c].playerId # connections[d].playerId

\* C11: once a connection's close event has been handled, no roster holds a
\* player bound to that closed connection.
C11_NoMemberOnClosedConnection ==
    \A r \in DOMAIN rooms : \A i \in 1..Len(Roster(r)) :
        readyState[Roster(r)[i].ws] # "CLOSED"

\* A step in which leaveRoom removes player p from room r (deleting the room
\* when p was its last member).
LeftRoom(r, p) ==
    /\ r \in DOMAIN rooms /\ Has(Roster(r), p)
    /\ \/ r \notin DOMAIN rooms'
       \/ /\ Len(Roster(r)) >= 2
          /\ Ids(rooms'[r].players) = Ids(Delete(Roster(r), p))

IndexNamesRosterMembers(cs, rs) ==
    \A c \in DOMAIN cs :
        cs[c].roomId \in DOMAIN rs /\ Has(rs[cs[c].roomId].players, cs[c].playerId)

\* C12: after leaveRoom has removed a player from a room, no entry of the
\* connection index maps a connection to that (player, room) pair, and every
\* entry (playerId, roomId) names a current roster member of that room.
C12_IndexFollowsLeave ==
    [][\A r \in DOMAIN rooms : \A p \in AllPlayers :
          LeftRoom(r, p) =>
              /\ \A c \in DOMAIN connections' :
                    connections'[c] # [playerId |-> p, roomId |-> r]
              /\ IndexNamesRosterMembers(connections', rooms')]_vars

\* C14: a joinRoom message for a private room that is waiting and not full is
\* accepted, the player added, when it carries the room's secret, and is
\* rejected when it carries another secret.
C14_PrivateJoinBySecret ==
    \A r \in DOMAIN rooms : \A p \in AllPlayers : \A ws \in OpenConns :
        (/\ rooms[r].isPrivate /\ rooms[r].status = "waiting"
         /\ Len(Roster(r)) < rooms[r].maxPlayers /\ ~Has(Roster(r), p)) =>
            /\ LET res == handleJoinRoom(ws, r, p, "Alex", rooms[r].password)
               IN  res.ok /\ Has(res.rooms[r].players, p)
            /\ \A s \in {"abc", Undefined} \ {rooms[r].password} :
                   ~handleJoinRoom(ws, r, p, "Alex", s).ok

\* The connections a sequence of messages was written to.
Recipients(out) == {out[k].ws : k \in 1..Len(out)}

\* Every member of room r is bound to an open connection of its own.
OwnOpenConnections(r) ==
    \A i, j \in 1..Len(Roster(r)) :
        /\ readyState[Roster(r)[i].ws] = "OPEN"
        /\ i # j => Roster(r)[i].ws # Roster(r)[j].ws

\* C13: a chat message posted by a roster member (each member on an open
\* connection of its own) is sent to every other member of the room and is
\* not sent to the sender's connection.
C13_ChatReachesOthersNotSender ==
    \A r \in DOMAIN rooms : \A i \in 1..Len(Roster(r)) :
        OwnOpenConnections(r) =>
            LET to == Recipients(addChatMessage(r, Roster(r)[i].name, "hi", "m1").out)
            IN  /\ \A j \in 1..Len(Roster(r)) : j # i => Roster(r)[j].ws \in to
                /\ Roster(r)[i].ws \notin to

\* C15: joinRoom by an id not in the roster is rejected when another member
\* holds the same display name up to case, and no roster holds two members
\* whose names are equal up to case.
C15_NoDuplicateNames ==
    \A r \in DOMAIN rooms :
        /\ \A i, j \in 1..Len(Roster(r)) :
              i # j => Lower(Roster(r)[i].name) # Lower(Roster(r)[j].name)
        /\ \A p \in Chat.players : \A name \in Chat.names : \A ws \in OpenConns :
              (/\ ~Has(Roster(r), p)
               /\ \E i \in 1..Len(Roster(r)) : Lower(Roster(r)[i].name) = Lower(name))
                  => ~handleJoinRoom(ws, r, p, name, Undefined).ok

\* ------------------------------------------------- claims, HTTP room store

StoreRoster(r) == httpRooms[r].players

\* The roster ids of room r whose Player record has isHost = true.
FlaggedHosts(r) ==
    {StoreRoster(r)[i] : i \in {j \in 1..Len(StoreRoster(r)) :
        /\ Has(httpPlayers, StoreRoster(r)[j])
        /\ Get(httpPlayers, StoreRoster(r)[j]).isHost}}

\* C16: every room of the HTTP store has exactly one roster member whose
\* Player record has isHost = true, and that member is room.hostId.
C16_StoreExactlyOneHost ==
    \A r \in DOMAIN httpRooms : FlaggedHosts(r) = {httpRooms[r].hostId}

\* C17: every room of the HTTP store has at least one and at most maxPlayers
\* roster members, and no player id twice in its roster.
C17_StoreRosterWithinBounds ==
    \A r \in DOMAIN httpRooms :
        /\ 1 <= Len(StoreRoster(r))
        /\ Len(StoreRoster(r)) <= httpRooms[r].maxPlayers
        /\ \A i, j \in 1..Len(StoreRoster(r)) :
              i # j => StoreRoster(r)[i] # StoreRoster(r)[j]

\* A roster at maxPlayers, and a join by a non-member that is refused.
C17_Witness ==
    \E r \in DOMAIN httpRooms : \E caller \in Full.callers :
        /\ Len(StoreRoster(r)) = httpRooms[r].maxPlayers
        /\ ~Includes(StoreRoster(r), caller[1])
        /\ ~postJoin(httpRooms, httpPlayers, now, r, caller[1], caller[2], Undefined).ok

\* The step takes the player named by room.hostId out of the roster of room
\* r, and members of the roster stay.
HostRemoved(r) ==
    /\ r \in DOMAIN httpRooms /\ r \in DOMAIN httpRooms'
    /\ Includes(StoreRoster(r), httpRooms[r].hostId)
    /\ ~Includes(httpRooms'[r].players, httpRooms[r].hostId)
    /\ \E i \in 1..Len(StoreRoster(r)) : Includes(httpRooms'[r].players, StoreRoster(r)[i])

\* The earliest-joined member of room r that the step leaves in the roster.
FirstSurvivor(r) ==
    StoreRoster(r)[CHOOSE i \in 1..Len(StoreRoster(r)) :
        /\ Includes(httpRooms'[r].players, StoreRoster(r)[i])
        /\ \A j \in 1..(i - 1) : ~Includes(httpRooms'[r].players, StoreRoster(r)[j])]

\* C18: when a request (DELETE, or the sweep of GET and POST) removes the
\* player named by room.hostId and members remain, room.hostId becomes the
\* first remaining id in join order and that player's record has isHost = true.
C18_StoreHostPassesToFirstRemaining ==
    [][\A r \in DOMAIN httpRooms :
          HostRemoved(r) =>
              /\ httpRooms'[r].hostId = FirstSurvivor(r)
              /\ Has(httpPlayers', httpRooms'[r].hostId)
              /\ Get(httpPlayers', httpRooms'[r].hostId).isHost]_vars

\* No record and no room is stale: the sweep that begins a POST changes nothing.
Settled ==
    cleanup(httpRooms, httpPlayers, now) = [rooms |-> httpRooms, players |-> httpPlayers]

\* C19: a join whose player id is already in the room's roster succeeds and
\* leaves the roster and the number of Player records as they were, whatever
\* the size of the roster.
C19_StoreRejoinIsIdempotent ==
    \A r \in DOMAIN httpRooms : \A caller \in Full.callers \cup Full.creators :
        (Settled /\ Includes(StoreRoster(r), caller[1])) =>
            LET res == postJoin(httpRooms, httpPlayers, now, r, caller[1], caller[2],
                                httpRooms[r].password)
            IN  /\ res.ok
                /\ res.rooms[r].players = StoreRoster(r)
                /\ Len(res.players) = Len(httpPlayers)

\* The join requests a specification over Private can send to room r.
PrivateJoins(r) ==
    {req \in [caller : Private.callers, password : Private.passwords,
               id : Private.generated \cup {c[1] : c \in Private.callers}] :
        /\ httpRooms[r].isPrivate
        /\ req.id \in NewPlayerId(Private, cleanup(httpRooms, httpPlayers, now).players,
                                  req.caller[1])}

JoinOf(r, req) ==
    postJoin(httpRooms, httpPlayers, now, r, req.id, req.caller[2], req.password)

\* C20 as stated: a join to a private room is accepted only if the supplied
\* secret equals the stored secret; a join with another secret is rejected
\* and leaves rooms and players unchanged; a join with the stored secret to
\* a waiting room that is not full is accepted.
C20_PrivateJoinAsStated ==
    \A r \in DOMAIN httpRooms : \A req \in PrivateJoins(r) :
        /\ JoinOf(r, req).ok => req.password = httpRooms[r].password
        /\ req.password # httpRooms[r].password =>
              /\ ~JoinOf(r, req).ok
              /\ JoinOf(r, req).rooms = httpRooms
              /\ JoinOf(r, req).players = httpPlayers
        /\ (/\ req.password = httpRooms[r].password
            /\ httpRooms[r].status = "waiting"
            /\ Len(StoreRoster(r)) < httpRooms[r].maxPlayers) => JoinOf(r, req).ok

\* C20, amended: a join to a private room is accepted only if the supplied
\* secret, trimmed, equals the stored secret; a join whose trimmed secret
\* differs is rejected and leaves rooms and players as the sweep that begins
\* the request left them; a join with the stored secret to a room that the
\* sweep leaves in the registry, waiting and not full, is accepted unless a
\* different roster member holds the requested name up to case.
C20_PrivateJoinBySecretAfterSweep ==
    \A r \in DOMAIN httpRooms : \A req \in PrivateJoins(r) :
        LET swept == cleanup(httpRooms, httpPlayers, now) IN
        r \in DOMAIN swept.rooms =>
            /\ JoinOf(r, req).ok => Trim(req.password) = swept.rooms[r].password
            /\ Trim(req.password) # swept.rooms[r].password =>
                  /\ ~JoinOf(r, req).ok
                  /\ JoinOf(r, req).rooms = swept.rooms
                  /\ JoinOf(r, req).players = swept.players
            /\ (/\ Trim(req.password) = swept.rooms[r].password
                /\ swept.rooms[r].status = "waiting"
                /\ Len(swept.rooms[r].players) < swept.rooms[r].maxPlayers
                /\ \/ Includes(swept.rooms[r].players, req.id)
                   \/ ~NameTaken(swept.rooms[r], swept.players, req.caller[2]))
                   => JoinOf(r, req).ok

\* A private room with a stored secret where a stale record awaits the sweep,
\* a join with a wrong secret is refused and a join with the right one is let in.
C20_Witness ==
    \E r \in DOMAIN httpRooms : \E wrong, right \in PrivateJoins(r) :
        /\ httpRooms[r].password = "xyz"
        /\ ~Settled
        /\ wrong.password = "abc" /\ ~JoinOf(r, wrong).ok
        /\ right.password = "xyz" /\ JoinOf(r, right).ok
        /\ ~Includes(StoreRoster(r), right.id)

\* A roster member of room other than id whose Player record holds name up
\* to case.
HeldByOther(room, ps, id, name) ==
    \E i \in 1..Len(room.players) :
        /\ room.players[i] # id
        /\ Has(ps, room.players[i])
        /\ Lower(Get(ps, room.players[i]).name) = Lower(name)

\* C21 as stated: a join by an id not in the roster is rejected, with rooms
\* and players unchanged, whenever a different roster member holds the
\* requested name up to case.
C21_DuplicateNameAsStated ==
    \A r \in DOMAIN httpRooms : \A req \in PrivateJoins(r) :
        (/\ ~Includes(StoreRoster(r), req.id)
         /\ HeldByOther(httpRooms[r], httpPlayers, req.id, req.caller[2])) =>
            /\ ~JoinOf(r, req).ok
            /\ JoinOf(r, req).rooms = httpRooms
            /\ JoinOf(r, req).players = httpPlayers

\* C21, amended: once the sweep that begins the request has run, a join by
\* an id not in the roster it left is rejected, with rooms and players as the
\* sweep left them, whenever a different member of that roster holds the
\* requested name up to case.
C21_DuplicateNameAfterSweep ==
    \A r \in DOMAIN httpRooms : \A req \in PrivateJoins(r) :
        LET swept == cleanup(httpRooms, httpPlayers, now) IN
        (/\ r \in DOMAIN swept.rooms
         /\ ~Includes(swept.rooms[r].players, req.id)
         /\ HeldByOther(swept.rooms[r], swept.players, req.id, req.caller[2])) =>
            /\ ~JoinOf(r, req).ok
            /\ JoinOf(r, req).rooms = swept.rooms
            /\ JoinOf(r, req).players = swept.players

\* A stale record awaits the sweep, and a join with the right secret to a
\* room that is not full is refused because the name is held.
C21_Witness ==
    \E r \in DOMAIN httpRooms : \E req \in PrivateJoins(r) :
        /\ ~Settled
        /\ JoinOf(r, req).error = "name taken"

\* The Player records the sweep finds stale.
StaleRecords == {i \in 1..Len(httpPlayers) : Stale(now, httpPlayers[i].lastSeen)}

\* The stale records that name room r and whose id is in its roster.
StaleMembers(r) ==
    {i \in StaleRecords :
        httpPlayers[i].roomId = r /\ Includes(StoreRoster(r), httpPlayers[i].id)}

\* C22: the sweep deletes the record of every player whose lastSeen is older
\* than the timeout and takes the player out of the roster of the room the
\* record names; the roster loses one id for each such member, and a room
\* whose only member was that player is not in the registry after the sweep.
C22_SweepRemovesStalePlayers ==
    LET swept == cleanup(httpRooms, httpPlayers, now) IN
    \A i \in StaleRecords :
        LET player == httpPlayers[i]
            r == player.roomId
        IN  /\ ~Has(swept.players, player.id)
            /\ (r \in DOMAIN httpRooms /\ Includes(StoreRoster(r), player.id)) =>
                  /\ StoreRoster(r) = <<player.id>> => r \notin DOMAIN swept.rooms
                  /\ r \in DOMAIN swept.rooms =>
                        /\ ~Includes(swept.rooms[r].players, player.id)
                        /\ Len(swept.rooms[r].players) =
                              Len(StoreRoster(r)) - Cardinality(StaleMembers(r))

\* One member of a room is stale, and the sweep leaves the room with exactly
\* one member less.
C22_Witness ==
    \E r \in DOMAIN httpRooms :
        /\ Cardinality(StaleMembers(r)) = 1
        /\ r \in DOMAIN cleanup(httpRooms, httpPlayers, now).rooms
        /\ Len(cleanup(httpRooms, httpPlayers, now).rooms[r].players)
              = Len(StoreRoster(r)) - 1

\* One room created with table sizes below, inside and above the clamps.
Sizes ==
    [codes |-> {"R1"},
     creators |-> {<<"p1", "alex">>},
     callers |-> {<<"p2", "bob">>},
     beating |-> {"p1"},
     leaving |-> {"p1", "p2"},
     generated |-> {},
     privacy |-> {<<FALSE, Undefined>>},
     passwords |-> {Undefined},
     maxPlayers |-> {0, 1, 5, 12},
     minPlayers |-> {0, 5, 8, 9},
     bodies |-> {"hi"},
     inTurn |-> FALSE]

NextSizes ==
    \/ GET(Sizes)
    \/ POSTcreate(Sizes)
    \/ POSTjoin(Sizes)
    \/ PUT(Sizes)
    \/ DELETE(Sizes)
    \/ Tick

SpecSizes == Init /\ [][NextSizes]_vars

\* One room whose creator sends heartbeats while others join and leave.
Beat ==
    [codes |-> {"R1"},
     creators |-> {<<"p1", "alex">>},
     callers |-> {<<"p2", "bob">>, <<"p3", "eve">>},
     beating |-> {"p1"},
     leaving |-> {"p2", "p3"},
     generated |-> {},
     privacy |-> {<<FALSE, Undefined>>},
     passwords |-> {Undefined},
     maxPlayers |-> {4},
     minPlayers |-> {0},
     bodies |-> {"hi"},
     inTurn |-> FALSE]

\* Every beating player that has a record was seen at the present time.
Beaten(U) ==
    \A playerId \in U.beating :
        Has(httpPlayers, playerId) => Get(httpPlayers, playerId).lastSeen = now

\* Time passes once the heartbeats of the present time have arrived: the
\* beating players send one every TickMs, less than the timeout.
BeatTick(U) == Beaten(U) /\ Tick

NextBeat ==
    \/ GET(Beat)
    \/ POSTcreate(Beat)
    \/ POSTjoin(Beat)
    \/ PUT(Beat)
    \/ DELETE(Beat)
    \/ BeatTick(Beat)

SpecBeat == Init /\ [][NextBeat]_vars

\* The create requests a specification over Cap can send, with the room code
\* generateRoomCode draws once the sweep has run.
CapCreates ==
    {req \in [caller : Cap.creators, code : Cap.codes] :
        req.code \in generateRoomCode(Cap, cleanup(httpRooms, httpPlayers, now).rooms)}

CreateOf(req) ==
    postCreate(httpRooms, httpPlayers, now, req.caller[1], req.code, req.caller[2],
               4, 0, FALSE, Undefined)

RoomCount(rs) == Cardinality(DOMAIN rs)

\* C23 as stated: the registry never holds more than 100 rooms, and a create
\* request that arrives when it holds 100 fails and adds no room and no
\* Player record.
C23_RoomCapAsStated ==
    /\ RoomCount(httpRooms) <= maxRooms
    /\ RoomCount(httpRooms) = maxRooms =>
          \A req \in CapCreates :
              /\ ~CreateOf(req).ok
              /\ DOMAIN CreateOf(req).rooms \subseteq DOMAIN httpRooms
              /\ Directory(CreateOf(req).players) \subseteq Directory(httpPlayers)

\* C23, amended: the registry never holds more than 100 rooms, and a create
\* request fails, leaving rooms and players as the sweep that begins it left
\* them, when the registry still holds 100 rooms after that sweep.
C23_RoomCapAfterSweep ==
    LET swept == cleanup(httpRooms, httpPlayers, now) IN
    /\ RoomCount(httpRooms) <= maxRooms
    /\ RoomCount(swept.rooms) = maxRooms =>
          \A req \in CapCreates :
              /\ ~CreateOf(req).ok
              /\ CreateOf(req).rooms = swept.rooms
              /\ CreateOf(req).players = swept.players

\* The registry holds 100 rooms, the clock has advanced, the sweep evicts
\* none of them, and a create request is refused for the room limit.
C23_Witness ==
    /\ RoomCount(cleanup(httpRooms, httpPlayers, now).rooms) = maxRooms
    /\ now > 0
    /\ \E req \in CapCreates : CreateOf(req).error = "room limit"

\* C24: every room in the HTTP registry stores minPlayers <= maxPlayers,
\* whatever pair (minPlayers, maxPlayers) the create request asked for.
C24_StoredMinAtMostMax ==
    \A roomId \in DOMAIN httpRooms :
        httpRooms[roomId].minPlayers <= httpRooms[roomId].maxPlayers

\* C25: every step of GameServer.createRoom adds exactly one room to the
\* registry under a code that was not in it, and leaves every room that was
\* in the registry as it was.
C25_CreateYieldsFreshCode ==
    [][CreateRoom(Lobby) =>
          /\ Cardinality(DOMAIN rooms') = Cardinality(DOMAIN rooms) + 1
          /\ \A roomId \in DOMAIN rooms :
                roomId \in DOMAIN rooms' /\ rooms'[roomId] = rooms[roomId]]_vars

\* The listings a GET may answer with in this state: the sweep, then
\* publicRooms over the rooms it left.
Listings ==
    LET swept == cleanup(httpRooms, httpPlayers, now)
    IN  {publicRooms(swept.rooms, values) : values \in Values(Cap, swept.rooms)}

\* C26: the listing of GET holds at most 50 entries, and each entry is the
\* entry of a room that is in the registry once the sweep has run, is not
\* private and has status waiting.
C26_ListingShowsPublicWaitingRooms ==
    LET swept == cleanup(httpRooms, httpPlayers, now) IN
    \A list \in Listings :
        /\ Len(list) <= listLimit
        /\ \A i \in DOMAIN list :
              /\ list[i].id \in DOMAIN swept.rooms
              /\ list[i] = Entry(swept.rooms, list[i].id)
              /\ ~swept.rooms[list[i].id].isPrivate
              /\ swept.rooms[list[i].id].status = "waiting"

\* The registry the sweep leaves holds a private room, a room created after
\* the start and more than 50 public waiting rooms, and the listing is cut to
\* 50 entries.
C26_Witness ==
    LET swept == cleanup(httpRooms, httpPlayers, now) IN
    /\ \E roomId \in DOMAIN swept.rooms : swept.rooms[roomId].createdAt > 0
    /\ \E roomId \in DOMAIN swept.rooms : swept.rooms[roomId].isPrivate
    /\ Cardinality({roomId \in DOMAIN swept.rooms : Listed(swept.rooms[roomId])}) > listLimit
    /\ \E list \in Listings : Len(list) = listLimit

\* The rooms of the HTTP registry that a step keeps and whose roster, host or
\* chat log it changes.
Reshaped ==
    {roomId \in DOMAIN httpRooms \cap DOMAIN httpRooms' :
        \/ httpRooms'[roomId].players # httpRooms[roomId].players
        \/ httpRooms'[roomId].hostId # httpRooms[roomId].hostId
        \/ httpRooms'[roomId].chatMessages # httpRooms[roomId].chatMessages}

\* C27: every step of the HTTP store that changes the roster, the host or the
\* chat log of a room it keeps leaves that room's lastUpdate at the time of
\* the request.
C27_ChangeTouchesLastUpdate ==
    [][\A roomId \in Reshaped : httpRooms'[roomId].lastUpdate = now]_vars

\* The moves of a room's status that go forward.
Forward(from, to) ==
    \/ from = to
    \/ from = "waiting" /\ to \in {"playing", "finished"}
    \/ from = "playing" /\ to = "finished"

\* C28: in every step the status of every room of the GameServer registry
\* and of the HTTP registry that the step keeps stays or moves forward along
\* waiting -> playing -> finished, and a join, leave, chat or snapshot step
\* leaves it as it was.
C28_StatusOnlyMovesForward ==
    [][/\ \A roomId \in DOMAIN rooms \cap DOMAIN rooms' :
              Forward(rooms[roomId].status, rooms'[roomId].status)
       /\ \A roomId \in DOMAIN httpRooms \cap DOMAIN httpRooms' :
              Forward(httpRooms[roomId].status, httpRooms'[roomId].status)
       /\ (\/ HandleJoinRoom(Lobby) \/ HandleLeaveRoom(Lobby) \/ OnClose(Lobby)
           \/ HandleChatMessage(Lobby) \/ HandleGetRoomState(Lobby)) =>
              \A roomId \in DOMAIN rooms \cap DOMAIN rooms' :
                  rooms'[roomId].status = rooms[roomId].status]_vars

\* The beating players that have a record naming a room.
Beating ==
    {playerId \in Beat.beating :
        Has(httpPlayers, playerId) /\ Get(httpPlayers, playerId).roomId # Undefined}

\* C29: a player that has a record naming a room and sends a heartbeat every
\* TickMs is in the directory and the room is in the registry, with the
\* player in its roster, and the sweep of any request removes neither.
C29_HeartbeatKeepsPlayerAndRoom ==
    LET swept == cleanup(httpRooms, httpPlayers, now) IN
    \A playerId \in Beating :
        LET roomId == Get(httpPlayers, playerId).roomId IN
        /\ roomId \in DOMAIN httpRooms
        /\ Has(swept.players, playerId)
        /\ roomId \in DOMAIN swept.rooms
        /\ Includes(swept.rooms[roomId].players, playerId)

\* The room of a beating player was created longer ago than the timeout,
\* and the sweep is about to remove a stale member of it.
C29_Witness ==
    \E playerId \in Beating :
        LET roomId == Get(httpPlayers, playerId).roomId IN
        /\ roomId \in DOMAIN httpRooms
        /\ now - httpRooms[roomId].createdAt > timeout
        /\ StaleMembers(roomId) # {}

\* One room of two seats, public or private, two connections, the wire
\* observed: joins are rejected for a missing room, a secret and a full room.
Door ==
    [rooms |-> {"R1"}, players |-> {"p1", "p2"}, hostIds |-> {"p1"},
     conns |-> {"c1", "c2"}, names |-> {"Alex"}, msgIds |-> {"m1"},
     secrets |-> {"xyz"}, maxPlayers |-> {2}, minPlayers |-> {2},
     observe |-> TRUE]

NextDoor ==
    \/ CreateRoom(Door)
    \/ HandleConnection(Door)
    \/ HandleJoinRoom(Door)
    \/ HandleLeaveRoom(Door)
    \/ OnClose(Door)
    \/ BroadcastTimer(Door)

SpecDoor == Init /\ [][NextDoor]_vars

\* C30: whenever a joinRoom message on an open connection is rejected, what
\* the server writes is one error message, addressed to that connection, and
\* rooms (rosters and chat logs included) and the connection index are as
\* they were; an error message on the wire is the only message of its step.
C30_RejectedJoinOnlyAnswersSender ==
    /\ \A ws \in Door.conns, roomId \in Door.rooms, playerId \in Door.players,
          playerName \in Door.names, secret \in Door.secrets :
          LET r == handleJoinRoom(ws, roomId, playerId, playerName, secret) IN
          (readyState[ws] = "OPEN" /\ ~r.ok) =>
              /\ r.rooms = rooms
              /\ r.connections = connections
              /\ Len(joinReply(ws, r)) = 1
              /\ joinReply(ws, r)[1].type = "error"
              /\ joinReply(ws, r)[1].ws = ws
    /\ (\E i \in DOMAIN sent : sent[i].type = "error") => Len(sent) = 1

\* A join was just rejected with an error on the wire while the room is full
\* and one of its members is on another, open connection.
C30_Witness ==
    /\ Len(sent) = 1
    /\ sent[1].type = "error"
    /\ \E roomId \in DOMAIN rooms :
          /\ Len(rooms[roomId].players) >= rooms[roomId].maxPlayers
          /\ \E i \in DOMAIN rooms[roomId].players :
                /\ rooms[roomId].players[i].ws # sent[1].ws
                /\ readyState[rooms[roomId].players[i].ws] = "OPEN"

\* The GameServer of Door that also receives messages of an unknown type.
NextDispatch ==
    \/ NextDoor
    \/ HandleUnknown(Door)

SpecDispatch == Init /\ [][NextDispatch]_vars

\* C31: a message of an unknown type on an open connection is answered with
\* one error message to that connection, and rooms and the connection index
\* stay as they were.
C31_UnknownTagGetsError ==
    \A ws \in Door.conns :
        readyState[ws] = "OPEN" =>
            /\ handleUnknown(ws).out = ErrorMsg(ws)
            /\ handleUnknown(ws).rooms = rooms
            /\ handleUnknown(ws).connections = connections

RECURSIVE Repeat(_, _)
Repeat(str, n) == IF n = 0 THEN "" ELSE str \o Repeat(str, n - 1)

\* A body of 210 characters.
LongBody == Repeat("0123456789", 21)

\* A body the chat is to refuse: empty, or longer than 200 characters.
Refused(message) == Len(message) = 0 \/ Len(message) > 200

\* One GameServer room and one HTTP room whose clients post an empty and an
\* over-long chat body.
Talk ==
    [rooms |-> {"R1"}, players |-> {"p1", "p2"}, hostIds |-> {"p1"},
     conns |-> {"c1", "c2"}, names |-> {"Alex"}, msgIds |-> {"m1"},
     secrets |-> {"xyz"}, maxPlayers |-> {2}, minPlayers |-> {2},
     observe |-> TRUE, bodies |-> {"", LongBody}]

TalkStore ==
    [codes |-> {"R1"},
     creators |-> {<<"p1", "alex">>},
     callers |-> {<<"p1", "alex">>},
     beating |-> {"p1"},
     leaving |-> {"p1"},
     generated |-> {},
     privacy |-> {<<FALSE, Undefined>>},
     passwords |-> {Undefined},
     maxPlayers |-> {4},
     minPlayers |-> {0},
     bodies |-> {"", LongBody},
     inTurn |-> FALSE]

NextTalk ==
    \/ CreateRoom(Talk)
    \/ HandleConnection(Talk)
    \/ HandleJoinRoom(Talk)
    \/ HandleChatMessage(Talk)
    \/ POSTcreate(TalkStore)
    \/ PostChatMessage(TalkStore)

SpecTalk == Init /\ [][NextTalk]_vars

\* C32: a chat post whose body is empty or longer than 200 characters adds
\* no entry to a chat log and is sent to no connection, in the GameServer
\* dispatch and in addChatMessage of the HTTP store.
C32_RefusedBodyIsNotPosted ==
    /\ \A roomId \in Talk.rooms, sender \in Talk.names, message \in Talk.bodies,
          id \in Talk.msgIds :
          Refused(message) =>
              /\ handleChatMessage(roomId, sender, message, id).rooms = rooms
              /\ handleChatMessage(roomId, sender, message, id).out = <<>>
    /\ \A roomId \in TalkStore.codes, caller \in TalkStore.callers,
          message \in TalkStore.bodies :
          Refused(message) =>
              postChatMessage(httpRooms, now, roomId, caller[2], message) = httpRooms

\* One private room of four seats: three callers fill it, a fourth asks for
\* the creator's name, and each may send the wrong secret.
Order ==
    [codes |-> {"R1"},
     creators |-> {<<"p1", "alex">>},
     callers |-> {<<"p2", "bob">>, <<"p3", "eve">>, <<"p4", "dan">>, <<"p5", "Alex">>},
     beating |-> {"p2"},
     leaving |-> {"p1"},
     generated |-> {},
     privacy |-> {<<TRUE, "xyz">>},
     passwords |-> {"xyz", "abc"},
     maxPlayers |-> {3},
     minPlayers |-> {0},
     bodies |-> {"hi"},
     inTurn |-> FALSE]

NextOrder ==
    \/ GET(Order)
    \/ POSTcreate(Order)
    \/ POSTjoin(Order)
    \/ PUT(Order)
    \/ DELETE(Order)
    \/ Tick

SpecOrder == Init /\ [][NextOrder]_vars

\* The join requests a specification over Order can send.
OrderJoins == [roomId : Order.codes, caller : Order.callers, password : Order.passwords]

OrderJoinOf(req) ==
    postJoin(httpRooms, httpPlayers, now, req.roomId, req.caller[1], req.caller[2],
             req.password)

\* The rejection reasons in the order the store is to report them.
ReasonOrder == <<"not found", "wrong password", "full", "started", "name taken">>

\* The reasons that apply to request req in the store the sweep leaves.
Applying(req) ==
    LET swept == cleanup(httpRooms, httpPlayers, now) IN
    IF req.roomId \notin DOMAIN swept.rooms THEN {"not found"}
    ELSE LET room == swept.rooms[req.roomId] IN
         {reason \in {"wrong password", "full", "started", "name taken"} :
            \/ reason = "wrong password" /\ room.isPrivate /\ room.password # req.password
            \/ reason = "full" /\ Len(room.players) >= room.maxPlayers
            \/ reason = "started" /\ room.status # "waiting"
            \/ reason = "name taken"
                 /\ HeldByOther(room, swept.players, req.caller[1], req.caller[2])}

FirstApplying(req) ==
    ReasonOrder[CHOOSE i \in DOMAIN ReasonOrder :
                   /\ ReasonOrder[i] \in Applying(req)
                   /\ \A j \in 1..(i - 1) : ReasonOrder[j] \notin Applying(req)]

\* C33: a join request to which several rejection reasons apply is rejected
\* with the first of them in the order not found, wrong secret, full, not
\* waiting, name held by a different id.
C33_FirstReasonIsReported ==
    \A req \in OrderJoins :
        Cardinality(Applying(req)) >= 2 =>
            /\ ~OrderJoinOf(req).ok
            /\ OrderJoinOf(req).error = FirstApplying(req)

\* A request with the wrong secret, for a full room, under a name another
\* member holds: three reasons apply at once.
C33_Witness ==
    \E req \in OrderJoins :
        /\ {"wrong password", "full", "name taken"} \subseteq Applying(req)
        /\ OrderJoinOf(req).error = "wrong password"

\* setTimeout: the deferred broadcast of joinRoom runs once it is due.
LiveDoor == SpecDoor /\ WF_vars(BroadcastTimer(Door))

\* The last handler sent every member of room roomId whose connection is
\* open a roomState message with the roster the room has now.
Informed(roomId) ==
    \A i \in DOMAIN rooms[roomId].players :
        readyState[rooms[roomId].players[i].ws] = "OPEN" =>
            \E k \in DOMAIN sent :
                /\ sent[k].ws = rooms[roomId].players[i].ws
                /\ sent[k].type = "roomState"
                /\ sent[k].data.players = PlayersJSON(rooms[roomId].players)

\* A step after which room roomId still exists with fewer members.
Shrinks(roomId) ==
    /\ roomId \in DOMAIN rooms /\ roomId \in DOMAIN rooms'
    /\ Len(rooms'[roomId].players) < Len(rooms[roomId].players)
    /\ Len(rooms'[roomId].players) > 0

\* C34: a leave that leaves members sends, in the same step, every member
\* with an open connection a roomState message with the roster as it is; and
\* once a join has set the deferred broadcast of a room, the members of the
\* room with an open connection are eventually sent a roomState message with
\* the roster the room has then (or the room is gone).
C34_MembersConvergeToSnapshot ==
    /\ [][\A roomId \in Door.rooms : Shrinks(roomId) => Informed(roomId)']_vars
    /\ \A roomId \in Door.rooms :
          (roomId \in timers /\ roomId \in DOMAIN rooms)
              ~> (roomId \notin DOMAIN rooms \/ Informed(roomId))

\* The deferred broadcast has run: two members on two open connections were
\* each sent the roomState of the room.
C34_Witness ==
    \E roomId \in DOMAIN rooms :
        /\ roomId \notin timers
        /\ Len(rooms[roomId].players) = 2
        /\ rooms[roomId].players[1].ws # rooms[roomId].players[2].ws
        /\ readyState[rooms[roomId].players[1].ws] = "OPEN"
        /\ readyState[rooms[roomId].players[2].ws] = "OPEN"
        /\ Len(sent) = 2
        /\ Informed(roomId)

\* C35: a joinRoom that adds a player flags it as host exactly when the
\* roster was empty or the player's id is the room's hostId; a joinRoom of a
\* player already in the roster leaves that player's flag as it was.
C35_HostFlagOfJoiner ==
    \A r \in DOMAIN rooms : \A p \in Lobby.players : \A ws \in OpenConns :
    \A name \in Lobby.names :
        LET res == joinRoom(r, p, name, ws, Undefined) IN
        res.ok =>
            IF Has(Roster(r), p)
            THEN Get(res.rooms[r].players, p).isHost = Get(Roster(r), p).isHost
            ELSE Get(res.rooms[r].players, p).isHost
                    <=> (Len(Roster(r)) = 0 \/ p = rooms[r].hostId)

\* The first joiner of the empty room was flagged, and so was the player
\* with the room's hostId who joined after it; a third joiner was not.
C35_Witness ==
    \E r \in DOMAIN rooms :
        /\ Len(Roster(r)) = 3
        /\ Roster(r)[1].isHost /\ Roster(r)[1].id # rooms[r].hostId
        /\ Roster(r)[2].isHost /\ Roster(r)[2].id = rooms[r].hostId
        /\ ~Roster(r)[3].isHost

\* Sequence log starts with sequence old.
Extends(log, old) == Len(log) >= Len(old) /\ SubSeq(log, 1, Len(old)) = old

\* Room roomId of the HTTP registry is after the step the room it was before
\* (a code is reused only by a later create, with a later createdAt).
SameStoreRoom(roomId) ==
    /\ roomId \in DOMAIN httpRooms /\ roomId \in DOMAIN httpRooms'
    /\ httpRooms'[roomId].createdAt = httpRooms[roomId].createdAt

\* C36: every step leaves the chat log of every room that exists before and
\* after it, in the GameServer registry and in the HTTP registry, with its
\* entries unchanged and in order, new entries at the end only.
C36_ChatLogIsAppendOnly ==
    [][/\ \A roomId \in DOMAIN rooms \cap DOMAIN rooms' :
              Extends(rooms'[roomId].chatMessages, rooms[roomId].chatMessages)
       /\ \A roomId \in DOMAIN httpRooms :
              SameStoreRoom(roomId) =>
                  Extends(httpRooms'[roomId].chatMessages,
                          httpRooms[roomId].chatMessages)]_vars

\* The rooms of the HTTP registry whose roster holds id.
RoomsOf(id) == {roomId \in DOMAIN httpRooms : Includes(StoreRoster(roomId), id)}

\* C37: every player id is in the roster of at most one room of the HTTP
\* registry.
C37_IdInAtMostOneRoster ==
    \A id \in {c[1] : c \in Store.creators \cup Store.callers} :
        Cardinality(RoomsOf(id)) <= 1

\* C38: every Player record with a roomId names a room of the registry whose
\* roster holds the record's id, and every id of a roster has a Player
\* record.
C38_RecordsAndRostersAgree ==
    /\ \A i \in 1..Len(httpPlayers) :
          httpPlayers[i].roomId # Undefined =>
              /\ httpPlayers[i].roomId \in DOMAIN httpRooms
              /\ Includes(StoreRoster(httpPlayers[i].roomId), httpPlayers[i].id)
    /\ \A roomId \in DOMAIN httpRooms : \A k \in 1..Len(StoreRoster(roomId)) :
          Has(httpPlayers, StoreRoster(roomId)[k])

\* C40: the hostId of every room of the HTTP registry is an id of the
\* room's roster.
C40_StoreHostIsMember ==
    \A roomId \in DOMAIN httpRooms :
        Includes(StoreRoster(roomId), httpRooms[roomId].hostId)

\* The creator of a room left it or went stale while others stayed: the
\* room's hostId is now another member.
C40_Witness ==
    \E roomId \in DOMAIN httpRooms :
        /\ httpRooms[roomId].hostId \notin {c[1] : c \in Full.creators}
        /\ Len(StoreRoster(roomId)) >= 2
        /\ Includes(StoreRoster(roomId), httpRooms[roomId].hostId)

\* C39: in every room of the GameServer registry with a non-empty roster
\* the hostId is the id of a roster member, and that member holds the host
\* flag.
C39_HostIdIsFlaggedMember ==
    \A r \in DOMAIN rooms :
        Len(Roster(r)) > 0 =>
            /\ Has(Roster(r), rooms[r].hostId)
            /\ Get(Roster(r), rooms[r].hostId).isHost

====
